---- MODULE Spec2Model ----
(***************************************************************************)
(* Model of server.js: the startup sequence (warm-up timer, connectToRedis, *)
(* fastify.listen), the ioredis client's connection life cycle as seen by   *)
(* the event handlers server.js registers, and the six route handlers.      *)
(* The external store is a black box that holds, per key, nothing, a string *)
(* or a list.                                                               *)
(*                                                                         *)
(* Model of run_tests.js (the wait-for-ready loop and the twelve scenarios) *)
(* and of entrypoint.sh, which starts the server in the background and runs *)
(* the tests.  To them the server is whatever answers on port 3000: the     *)
(* responses are inputs.                                                    *)
(*                                                                         *)
(* Model of the client's reconnection loop with the attempt counter not     *)
(* folded, to follow retryStrategy up to its cap.                           *)
(***************************************************************************)
EXTENDS Integers, Sequences, FiniteSets

VARIABLES
    pc,            \* position of start(): warmup, connectToRedis, awaitInitial, listen, listening, exited
    redis,         \* status of the module-level client `redis`; NoClient while it is undefined
    promise,       \* the initial-connect promise of connectToRedis: none, pending, resolved, rejected
    retryAttempts, \* the client's count of reconnection attempts since it was last ready
    storeUp,       \* whether the external store accepts connections at the moment
    store,         \* contents of the external store, per key
    resp,          \* the last request handled and the response sent for it
    exitCode,      \* <<status>> once process.exit(status) was called, <<>> before
    steps,         \* the startup steps taken so far, in order
    seen,          \* what has happened so far: events emitted, responses served
    harness,       \* position of run_tests.js
    ready,         \* `ready` of waitForServer
    attempts,      \* `attempts` of waitForServer
    timerArmed,    \* the abort timer of a probe is set and has neither fired nor been cleared
    testCount,     \* `testCount`
    passCount,     \* `passCount`
    res,           \* `res` of runTests: what the last makeRequest returned
    harnessExit,   \* <<status>> once run_tests.js called process.exit(status), <<>> before
    ran,           \* what the run has done so far: checks failed, exceptions caught, routes asked
    script,        \* position of entrypoint.sh
    app,           \* the background server process, as the shell sees it
    appExit,       \* <<status>> of the server process once it has exited by itself
    testExitCode,  \* TEST_EXIT_CODE of entrypoint.sh, <<>> while unset
    scriptExit,    \* <<status>> once entrypoint.sh has exited, <<>> before
    retry          \* the client's reconnection loop: status, attempt number, delay

serverVars == <<pc, redis, promise, retryAttempts, storeUp, store, resp, exitCode, steps, seen>>
harnessVars == <<harness, ready, attempts, timerArmed, testCount, passCount, res, harnessExit, ran>>
scriptVars == <<script, app, appExit, testExitCode, scriptExit>>

vars == <<serverVars, harnessVars, scriptVars, retry>>

\* What no step of server.js touches.
outsideServer == <<harnessVars, scriptVars, retry>>

----------------------------------------------------------------------------
(* Bounds of the model *)

\* Attempt numbers above this are folded onto it (the counter itself is unbounded).
MaxRetryAttempts == 3
\* The longest list the store holds; a push to a full list is not issued.
MaxListLen == 2

Keys == {"k1"}
Values == {"a", "b"}

----------------------------------------------------------------------------
(* Values *)

NoClient == "none"
\* process.exit has not been called.
Running == <<>>

Min(a, b) == IF a < b THEN a ELSE b

\* Faulty variant: the policy stops retrying after twenty attempts.
retryStrategyGivesUp(times) == IF times > 20 THEN 0 - 1 ELSE Min(times * 150, 2000)

\* server.js:23-27: the delay before the next connection attempt. The result is
\* always a number; a negative result stands for a value that is no number.
retryStrategy(times) == Min(times * 150, 2000)

NoRecord == [kind |-> "none", str |-> "", list |-> <<>>]
StringRecord(v) == [kind |-> "string", str |-> v, list |-> <<>>]
ListRecord(l) == [kind |-> "list", str |-> "", list |-> l]

NoResp == [route |-> "none"]

\* What the requests answered 200 have done to a key so far: NeverSet, the
\* value of the last Set, or Deleted when a Delete followed the last Set; and
\* the values pushed since the key last held nothing, in push order.
NeverSet == "never set"
Deleted == "deleted"

NothingSeen ==
    [connect |-> FALSE, ready |-> FALSE, served503 |-> FALSE,
     lastSet |-> [k \in Keys |-> NeverSet], pushed |-> [k \in Keys |-> <<>>]]

\* run_tests.js:90: `res` before the first makeRequest returns.
NoResult == [status |-> 0, body |-> [none |-> TRUE], synthetic |-> FALSE]

NothingRan == [failed |-> 0, threw |-> FALSE, askedTestRoute |-> FALSE]

----------------------------------------------------------------------------
(* Startup: start() and connectToRedis() *)

Init ==
    /\ pc = "warmup"
    /\ redis = NoClient
    /\ promise = "none"
    /\ retryAttempts = 0
    /\ storeUp \in BOOLEAN
    /\ store = [k \in Keys |-> NoRecord]
    /\ resp = NoResp
    /\ exitCode = Running
    /\ steps = <<>>
    /\ seen = NothingSeen
    /\ harness = "notStarted"
    /\ ready = FALSE
    /\ attempts = 0
    /\ timerArmed = FALSE
    /\ testCount = 0
    /\ passCount = 0
    /\ res = NoResult
    /\ harnessExit = Running
    /\ ran = NothingRan
    /\ script = "start"
    /\ app = "notStarted"
    /\ appExit = Running
    /\ testExitCode = <<>>
    /\ scriptExit = Running
    /\ retry = [status |-> "connecting", times |-> 0, delay |-> 0]

\* server.js:167: the 10-second timer fires and start() goes on to connectToRedis().
WarmupTimerFires ==
    /\ pc = "warmup"
    /\ pc' = "connectToRedis"
    /\ steps' = Append(steps, "timer")
    /\ UNCHANGED <<redis, promise, retryAttempts, storeUp, store, resp, exitCode, seen>>
    /\ UNCHANGED outsideServer

\* server.js:19-31: the client is created (it starts connecting at once), the
\* event handlers are registered and connectToRedis awaits the promise.
NewRedis ==
    /\ pc = "connectToRedis"
    /\ redis' = "connecting"
    /\ promise' = "pending"
    /\ pc' = "awaitInitial"
    /\ steps' = Append(steps, "newRedis")
    /\ UNCHANGED <<retryAttempts, storeUp, store, resp, exitCode, seen>>
    /\ UNCHANGED outsideServer

\* Faulty variant: the catch block of connectToRedis rethrows, and start() exits.
NewRedisThrowsExits ==
    /\ pc = "connectToRedis"
    /\ pc' = "exited"
    /\ exitCode' = <<1>>
    /\ steps' = Append(steps, "newRedisThrew")
    /\ UNCHANGED <<redis, promise, retryAttempts, storeUp, store, resp, seen>>
    /\ UNCHANGED outsideServer

\* server.js:18-19, 67-71: the constructor throws; the catch block logs and
\* connectToRedis returns with `redis` still undefined.
NewRedisThrows ==
    /\ pc = "connectToRedis"
    /\ pc' = "listen"
    /\ steps' = Append(Append(steps, "newRedisThrew"), "returned")
    /\ UNCHANGED <<redis, promise, retryAttempts, storeUp, store, resp, exitCode, seen>>
    /\ UNCHANGED outsideServer

\* Faulty variant: start() calls connectToRedis() without awaiting it.
ReturnsWithoutAwait ==
    /\ pc = "awaitInitial"
    /\ pc' = "listen"
    /\ steps' = Append(steps, "returned")
    /\ UNCHANGED <<redis, promise, retryAttempts, storeUp, store, resp, exitCode, seen>>
    /\ UNCHANGED outsideServer

\* server.js:31, 66-72, 169: the awaited promise has settled (a rejection is
\* caught at 67), connectToRedis returns and start() calls fastify.listen.
ConnectToRedisReturns ==
    /\ pc = "awaitInitial"
    /\ promise \in {"resolved", "rejected"}
    /\ pc' = "listen"
    /\ steps' = Append(steps, "returned")
    /\ UNCHANGED <<redis, promise, retryAttempts, storeUp, store, resp, exitCode, seen>>
    /\ UNCHANGED outsideServer

\* server.js:171-172: the port is bound and the server accepts requests.
ListenBinds ==
    /\ pc = "listen"
    /\ pc' = "listening"
    /\ steps' = Append(steps, "listening")
    /\ UNCHANGED <<redis, promise, retryAttempts, storeUp, store, resp, exitCode, seen>>
    /\ UNCHANGED outsideServer

\* server.js:171, 173-176: fastify.listen rejects; the catch block exits with 1.
ListenFails ==
    /\ pc = "listen"
    /\ pc' = "exited"
    /\ exitCode' = <<1>>
    /\ steps' = Append(steps, "listenFailed")
    /\ UNCHANGED <<redis, promise, retryAttempts, storeUp, store, resp, seen>>
    /\ UNCHANGED outsideServer

----------------------------------------------------------------------------
(* The client's connection events, server.js:32-65 *)

Alive == pc # "exited"

\* resolve() and reject() settle a pending promise and do nothing otherwise.
Settle(p, how) == IF p = "pending" THEN how ELSE p

\* server.js:32-35: the socket is established; the handler resolves the promise.
OnConnect ==
    /\ Alive
    /\ redis = "connecting"
    /\ storeUp
    /\ redis' = "connect"
    /\ promise' = Settle(promise, "resolved")
    /\ seen' = [seen EXCEPT !.connect = TRUE]
    /\ UNCHANGED <<pc, retryAttempts, storeUp, store, resp, exitCode, steps>>
    /\ UNCHANGED outsideServer

\* server.js:43-51: the ready check passed; the handler resolves the promise
\* when the server is not listening yet.
OnReady ==
    /\ Alive
    /\ redis = "connect"
    /\ storeUp
    /\ redis' = "ready"
    /\ retryAttempts' = 0
    /\ promise' = IF pc # "listening" THEN Settle(promise, "resolved") ELSE promise
    /\ seen' = [seen EXCEPT !.ready = TRUE]
    /\ UNCHANGED <<pc, storeUp, store, resp, exitCode, steps>>
    /\ UNCHANGED outsideServer

NextAttempt(n) == IF n < MaxRetryAttempts THEN n + 1 ELSE n

\* Faulty variant: the error handler rejects the initial-connect promise.
ConnectionLostRejects ==
    /\ Alive
    /\ redis \in {"connecting", "connect", "ready"}
    /\ redis = "connecting" => ~storeUp
    /\ retryAttempts' = NextAttempt(retryAttempts)
    /\ redis' = "reconnecting"
    /\ promise' = Settle(promise, "rejected")
    /\ UNCHANGED <<pc, storeUp, store, resp, exitCode, steps, seen>>
    /\ UNCHANGED outsideServer

\* server.js:36-42, 52-54, 23-27, 58-65: a connection attempt fails (the store
\* is unreachable) or an established connection drops. The error handler only logs. On close the
\* client asks retryStrategy for a delay: a number schedules a reconnection,
\* anything else ends the client, and the end handler rejects the promise.
ConnectionLost ==
    LET times == NextAttempt(retryAttempts)
        delay == retryStrategy(times)
    IN
    /\ Alive
    /\ redis \in {"connecting", "connect", "ready"}
    /\ redis = "connecting" => ~storeUp
    /\ retryAttempts' = times
    /\ IF delay >= 0
          THEN /\ redis' = "reconnecting"
               /\ UNCHANGED promise
          ELSE /\ redis' = "end"   \* not reached: retryStrategy returns a number
               /\ promise' = Settle(promise, "rejected")
    /\ UNCHANGED <<pc, storeUp, store, resp, exitCode, steps, seen>>
    /\ UNCHANGED outsideServer

\* server.js:55-57: the retry delay has passed and the client connects again.
Reconnecting ==
    /\ Alive
    /\ redis = "reconnecting"
    /\ redis' = "connecting"
    /\ UNCHANGED <<pc, promise, retryAttempts, storeUp, store, resp, exitCode, steps, seen>>
    /\ UNCHANGED outsideServer

\* The external store becomes reachable or unreachable.
StoreChanges ==
    /\ storeUp' = ~storeUp
    /\ UNCHANGED <<pc, redis, promise, retryAttempts, store, resp, exitCode, steps, seen>>
    /\ UNCHANGED outsideServer

----------------------------------------------------------------------------
(* The external store's commands.  Each yields [ok, result or err, store]. *)

WRONGTYPE == <<"WRONGTYPE Operation against a key holding the wrong kind of value">>
NotAnInteger == <<"ERR value is not an integer or out of range">>
ConnectionClosed == <<"Connection is closed.">>
NoError == <<>>

Done(result, st) == [ok |-> TRUE, result |-> result, store |-> st]
Failed(err, st) == [ok |-> FALSE, err |-> err, store |-> st]

\* Faulty variant: SETNX is called, which leaves an existing key alone.
SetIfAbsent(st, k, v) ==
    IF st[k].kind = "none" THEN [ok |-> TRUE, result |-> "OK", store |-> [st EXCEPT ![k] = StringRecord(v)]]
    ELSE [ok |-> TRUE, result |-> "OK", store |-> st]

\* SET key value: overwrites whatever the key held.
Set(st, k, v) == Done("OK", [st EXCEPT ![k] = StringRecord(v)])

\* GET key: the string, null for an absent key, an error for a list.
Get(st, k) ==
    CASE st[k].kind = "none" -> Done([null |-> TRUE], st)
      [] st[k].kind = "string" -> Done([null |-> FALSE, value |-> st[k].str], st)
      [] OTHER -> Failed(WRONGTYPE, st)

\* Faulty variant: the value becomes the new tail (RPUSH).
LpushAppends(st, k, v) ==
    CASE st[k].kind = "none" -> Done(1, [st EXCEPT ![k] = ListRecord(<<v>>)])
      [] st[k].kind = "list" ->
            Done(Len(st[k].list) + 1, [st EXCEPT ![k] = ListRecord(Append(st[k].list, v))])
      [] OTHER -> Failed(WRONGTYPE, st)

\* LPUSH key value: the value becomes the new head; the key is created if absent.
Lpush(st, k, v) ==
    CASE st[k].kind = "none" -> Done(1, [st EXCEPT ![k] = ListRecord(<<v>>)])
      [] st[k].kind = "list" ->
            Done(Len(st[k].list) + 1, [st EXCEPT ![k] = ListRecord(<<v>> \o st[k].list)])
      [] OTHER -> Failed(WRONGTYPE, st)

\* LRANGE key start stop: inclusive, negative indexes count from the tail,
\* out-of-range indexes are clamped.
Range(l, start, stop) ==
    LET n == Len(l)
        s0 == IF start < 0 THEN n + start ELSE start
        e0 == IF stop < 0 THEN n + stop ELSE stop
        s == IF s0 < 0 THEN 0 ELSE s0
        e == IF e0 >= n THEN n - 1 ELSE e0
    IN IF s > e \/ s >= n THEN <<>> ELSE SubSeq(l, s + 1, e + 1)

\* Faulty variant: a range read of a missing key is an error.
LrangeNoSuchKey(st, k, start, stop) ==
    CASE start.nan \/ stop.nan -> Failed(NotAnInteger, st)
      [] st[k].kind = "list" -> Done(Range(st[k].list, start.n, stop.n), st)
      [] OTHER -> Failed(WRONGTYPE, st)

Lrange(st, k, start, stop) ==
    CASE start.nan \/ stop.nan -> Failed(NotAnInteger, st)
      [] st[k].kind = "none" -> Done(<<>>, st)
      [] st[k].kind = "list" -> Done(Range(st[k].list, start.n, stop.n), st)
      [] OTHER -> Failed(WRONGTYPE, st)

\* DEL key: the number of keys removed.
Del(st, k) ==
    IF st[k].kind = "none" THEN Done(0, st) ELSE Done(1, [st EXCEPT ![k] = NoRecord])

\* A command whose connection breaks before the reply is rejected by the client.
Call(outcome, st, breaks) == IF breaks THEN Failed(ConnectionClosed, st) ELSE outcome

----------------------------------------------------------------------------
(* Requests *)

\* A property the JSON body does not carry, or a body that was not sent.
Undefined == "undefined"

\* request.body of POST /test/set and /test/lpush: not sent at all, or an object
\* with or without the properties key and value; the key may be the empty string.
Bodies ==
    {[present |-> FALSE, key |-> Undefined, value |-> Undefined]}
    \cup [present : {TRUE}, key : Keys \cup {"", Undefined}, value : Values \cup {Undefined}]

\* The :start and :stop path parameters, as text.
IndexParams == {"0", "-1", "x"}

\* parseInt(text, 10): a number, or NaN for text that starts with no digit.
parseInt(text) ==
    CASE text = "0" -> [nan |-> FALSE, n |-> 0]
      [] text = "-1" -> [nan |-> FALSE, n |-> -1]
      [] OTHER -> [nan |-> TRUE, n |-> 0]

\* !key of server.js:86 and 120.
Falsy(x) == x = Undefined \/ x = ""

\* The message of the TypeError thrown by destructuring an undefined body.
CannotDestructure == <<"Cannot destructure property 'key' of 'request.body' as it is undefined.">>

NumStr(n) == IF n = 0 THEN "0" ELSE "1"

----------------------------------------------------------------------------
(* Route handlers, server.js:75-160 *)

Listening == pc = "listening"

\* Faulty variant: the gate only checks that a client exists.
NotReadyOnlyAbsent == redis = NoClient

\* Faulty variant: once a request was refused the gate stays shut.
NotReadyLatched == redis = NoClient \/ redis # "ready" \/ seen.served503

\* server.js:81, 98, 115, 132, 146: the readiness gate of the data-access handlers.
NotReady == redis = NoClient \/ redis # "ready"

\* Faulty variant: an established socket already counts as connected.
StatusLabelEager ==
    IF redis # NoClient
       THEN (IF redis \in {"connect", "ready"} THEN "connected" ELSE redis)
       ELSE "disconnected"

\* server.js:76: the connection-state label of GET /.
StatusLabel == IF redis # NoClient THEN (IF redis = "ready" THEN "connected" ELSE redis) ELSE "disconnected"

\* server.js:90, 155: what a Set or a Delete answered 200 did to the key.
LastSetAfter(last, route, req, status) ==
    CASE status = 200 /\ route = "set" -> [last EXCEPT ![req.key] = req.value]
      [] status = 200 /\ route = "del" ->
            [last EXCEPT ![req.key] = IF @ = NeverSet THEN NeverSet ELSE Deleted]
      [] OTHER -> last

\* server.js:90, 124, 155: the values pushed to a key by List-push requests
\* answered 200 since a Set or a Delete answered 200.
PushedAfter(pushed, route, req, status) ==
    CASE status = 200 /\ route = "lpush" -> [pushed EXCEPT ![req.key] = Append(@, req.value)]
      [] status = 200 /\ route \in {"set", "del"} -> [pushed EXCEPT ![req.key] = <<>>]
      [] OTHER -> pushed

\* The response sent for a request, with the store commands the handler issued
\* and the error the store command raised (NoError when none did).
Reply(route, req, status, body, cmds, cmdError) ==
    /\ resp' = [route |-> route, req |-> req, gate |-> redis, status |-> status,
                body |-> body, cmds |-> cmds, cmdError |-> cmdError]
    /\ seen' = [seen EXCEPT !.served503 = @ \/ status = 503,
                            !.lastSet = LastSetAfter(@, route, req, status),
                            !.pushed = PushedAfter(@, route, req, status)]
    /\ UNCHANGED <<pc, redis, promise, retryAttempts, storeUp, exitCode, steps>>
    /\ UNCHANGED outsideServer

\* Faulty variant: the refusal carries a message field instead of an error field.
Reply503NoError(route, req) ==
    /\ Reply(route, req, 503, [message |-> <<"Redis not connected">>], <<>>, NoError)
    /\ UNCHANGED store

\* server.js:82, 99, 116, 133, 147.
Reply503(route, req) ==
    /\ Reply(route, req, 503, [error |-> <<"Redis not connected">>], <<>>, NoError)
    /\ UNCHANGED store

\* Faulty variant: only the key is validated.
MissingInputKeyOnly(body) == Falsy(body.key)

\* server.js:86, 120: the validation of the body's key and value.
MissingInput(body) == Falsy(body.key) \/ body.value = Undefined

\* The first line of each handler's catch block.
FailureText(route) ==
    CASE route = "set" -> <<"Failed to set key in Redis">>
      [] route = "get" -> <<"Failed to get key from Redis">>
      [] route = "lpush" -> <<"Failed to LPUSH to Redis list">>
      [] route = "lrange" -> <<"Failed to LRANGE from Redis list">>
      [] OTHER -> <<"Failed to delete key from Redis">>

\* Faulty variant: no catch block; the framework's default error reply is sent.
Uncaught(route, req, message, cmds, cmdError) ==
    Reply(route, req, 500,
          [statusCode |-> 500, error |-> <<"Internal Server Error">>, message |-> message],
          cmds, cmdError)

\* server.js:91-94, 108-111, 125-128, 139-142, 156-159: the catch block of a
\* handler answers 500 with the message of whatever the try block threw.
Caught(route, req, message, cmds, cmdError) ==
    Reply(route, req, 500, [error |-> FailureText(route), details |-> message], cmds, cmdError)

\* server.js:75-77: GET /.
HandleStatus ==
    /\ Listening
    /\ Reply("/", [path |-> "/"], 200, [hello |-> "world", redis_status |-> StatusLabel], <<>>, NoError)
    /\ UNCHANGED store

\* server.js:80-95: POST /test/set.
HandleSet(body, breaks) ==
    /\ Listening
    /\ IF NotReady THEN Reply503("set", body)
       ELSE IF ~body.present THEN
          /\ Caught("set", body, CannotDestructure, <<>>, NoError)
          /\ UNCHANGED store
       ELSE IF MissingInput(body) THEN
          /\ Reply("set", body, 400, [error |-> <<"Missing key or value in request body">>],
                   <<>>, NoError)
          /\ UNCHANGED store
       ELSE LET r == Call(Set(store, body.key, body.value), store, breaks) IN
          /\ store' = r.store
          /\ IF r.ok
                THEN Reply("set", body, 200,
                           [success |-> TRUE,
                            message |-> <<"Set key '", body.key, "' to '", body.value, "'">>],
                           <<"SET">>, NoError)
                ELSE Caught("set", body, r.err, <<"SET">>, r.err)

\* server.js:97-112: GET /test/get/:key.
HandleGet(key, breaks) ==
    LET req == [key |-> key] IN
    /\ Listening
    /\ IF NotReady THEN Reply503("get", req)
       ELSE LET r == Call(Get(store, key), store, breaks) IN
          /\ store' = r.store
          /\ IF ~r.ok
                THEN Caught("get", req, r.err, <<"GET">>, r.err)
                ELSE IF r.result.null
                THEN Reply("get", req, 404, [error |-> <<"Key '", key, "' not found">>],
                           <<"GET">>, NoError)
                ELSE Reply("get", req, 200,
                           [success |-> TRUE, key |-> key, value |-> r.result.value],
                           <<"GET">>, NoError)

\* server.js:114-129: POST /test/lpush.
HandleLpush(body, breaks) ==
    /\ Listening
    /\ IF NotReady THEN Reply503("lpush", body)
       ELSE IF ~body.present THEN
          /\ Caught("lpush", body, CannotDestructure, <<>>, NoError)
          /\ UNCHANGED store
       ELSE IF MissingInput(body) THEN
          /\ Reply("lpush", body, 400, [error |-> <<"Missing key or value in request body">>],
                   <<>>, NoError)
          /\ UNCHANGED store
       ELSE LET r == Call(Lpush(store, body.key, body.value), store, breaks) IN
          /\ Len(store[body.key].list) < MaxListLen
          /\ store' = r.store
          /\ IF r.ok
                THEN Reply("lpush", body, 200,
                           [success |-> TRUE,
                            message |-> <<"LPUSHed '", body.value, "' to list '", body.key, "'">>],
                           <<"LPUSH">>, NoError)
                ELSE Caught("lpush", body, r.err, <<"LPUSH">>, r.err)

\* server.js:131-143: GET /test/lrange/:key/:start/:stop.
HandleLrange(key, start, stop, breaks) ==
    LET req == [key |-> key, start |-> start, stop |-> stop] IN
    /\ Listening
    /\ IF NotReady THEN Reply503("lrange", req)
       ELSE LET r == Call(Lrange(store, key, parseInt(start), parseInt(stop)), store, breaks) IN
          /\ store' = r.store
          /\ IF r.ok
                THEN Reply("lrange", req, 200,
                           [success |-> TRUE, key |-> key, values |-> r.result],
                           <<"LRANGE">>, NoError)
                ELSE Caught("lrange", req, r.err, <<"LRANGE">>, r.err)

\* Faulty variant: the not-found branch is never taken.
NothingDeletedNever(result) == FALSE

\* server.js:152: result === 0.
NothingDeleted(result) == result = 0

\* server.js:145-160: DELETE /test/del/:key.
HandleDel(key, breaks) ==
    LET req == [key |-> key] IN
    /\ Listening
    /\ IF NotReady THEN Reply503("del", req)
       ELSE LET r == Call(Del(store, key), store, breaks) IN
          /\ store' = r.store
          /\ IF ~r.ok
                THEN Caught("del", req, r.err, <<"DEL">>, r.err)
                ELSE IF NothingDeleted(r.result)
                THEN Reply("del", req, 404,
                           [error |-> <<"Key '", key, "' not found or not deleted">>],
                           <<"DEL">>, NoError)
                ELSE Reply("del", req, 200,
                           [success |-> TRUE,
                            message |-> <<"Deleted key '", key, "', count: ", NumStr(r.result)>>],
                           <<"DEL">>, NoError)

----------------------------------------------------------------------------
(* run_tests.js *)

outsideHarness == <<serverVars, scriptVars, retry>>

\* run_tests.js:51.
maxAttempts == 25
\* run_tests.js:156: the twelfth and last makeRequest of runTests.
LastScenario == 12

\* run_tests.js:97, 118, 119.
testValue == "testvalue"
item1 == "item1"
item0 == "item0"

\* A response body that is the JSON text null.
Null == [null |-> TRUE]
IsNull(body) == "null" \in DOMAIN body

\* What may answer a request: any of these statuses with any of these bodies.
Statuses == {200, 404, 500, 503}
JsonBodies ==
    {[hello |-> "world", redis_status |-> "connected"],
     [hello |-> "world", redis_status |-> "connecting"],
     [success |-> TRUE, message |-> <<"OK">>],
     [success |-> TRUE, message |-> <<"Deleted key '", "k", "', count: ", "1">>],
     [success |-> TRUE, value |-> testValue],
     [success |-> TRUE, value |-> "other"],
     [success |-> TRUE, values |-> <<item0, item1>>],
     [success |-> TRUE, values |-> <<item1, item0>>],
     [success |-> TRUE, values |-> <<>>],
     [error |-> <<"Key not found">>],
     Null}

\* run_tests.js:29: what makeRequest returns for a response that was read.
Result(status, body) == [status |-> status, body |-> body, synthetic |-> FALSE]

\* run_tests.js:32: what makeRequest returns when the request threw.
Synthetic == [status |-> 500, body |-> [error |-> <<"fetch failed">>], synthetic |-> TRUE]

\* body.f === v, for a body that is an object.
Is(body, f, v) == f \in DOMAIN body /\ body[f] = v

\* message.includes('count: 1').
IncludesCountOne(message) ==
    \E i \in 1..(Len(message) - 1) : message[i] = "', count: " /\ message[i + 1] = "1"

\* run_tests.js:134, 151.
DeletedOne(r) ==
    /\ r.status = 200
    /\ Is(r.body, "success", TRUE)
    /\ "message" \in DOMAIN r.body
    /\ r.body.message # <<>>
    /\ IncludesCountOne(r.body.message)

\* run_tests.js:112, 145.
NotFoundWithError(r) == r.status = 404 /\ "error" \in DOMAIN r.body /\ r.body.error # <<>>

\* run_tests.js:91, 99, 105, 112, 121, 124, 128, 134, 140, 145, 151, 157: the
\* condition scenario i passes to check.
Condition(i, r) ==
    CASE i = 1 -> /\ r.status = 200
                  /\ Is(r.body, "hello", "world")
                  /\ Is(r.body, "redis_status", "connected")
      [] i \in {2, 5, 6} -> r.status = 200 /\ Is(r.body, "success", TRUE)
      [] i = 3 -> r.status = 200 /\ Is(r.body, "success", TRUE) /\ Is(r.body, "value", testValue)
      [] i \in {4, 10} -> NotFoundWithError(r)
      [] i = 7 -> /\ r.status = 200
                  /\ Is(r.body, "success", TRUE)
                  /\ Is(r.body, "values", <<item0, item1>>)
      [] i \in {8, 11} -> DeletedOne(r)
      [] i = 9 -> r.status = 404
      [] OTHER -> r.status = 200 /\ Is(r.body, "values", <<>>)

\* The status scenario i tests first; the rest of its condition is evaluated
\* only when the status is this one.
Wanted(i) == IF i \in {4, 9, 10} THEN 404 ELSE 200

\* Reading a property of a null body throws a TypeError; scenario 9 reads none.
ConditionThrows(i, r) == IsNull(r.body) /\ i # 9 /\ r.status = Wanted(i)

\* run_tests.js:73-76: attempts++ and the 2-second delay.
FailedAttempt ==
    /\ attempts' = attempts + 1
    /\ harness' = "delay"

\* Faulty variant: the run goes on to the scenarios without having seen ready.
GiveUpGoesOn ==
    /\ harness' = "scenario"
    /\ UNCHANGED harnessExit

\* run_tests.js:79-82.
GiveUp ==
    /\ harness' = "gaveUp"
    /\ harnessExit' = <<1>>

\* run_tests.js:52-56, 78-82, 87-90: the loop test; a probe is started with its
\* abort timer, or the loop is left, to give up or to run the scenarios.
LoopTest ==
    /\ harness = "loop"
    /\ IF ~ready /\ attempts < maxAttempts
          THEN /\ harness' = "fetch"
               /\ timerArmed' = TRUE
               /\ UNCHANGED <<attempts, harnessExit>>
          ELSE IF ~ready
          THEN /\ GiveUp
               /\ UNCHANGED <<attempts, timerArmed>>
          ELSE /\ harness' = "scenario"
               /\ attempts' = 0   \* waitForServer returns; its local is gone
               /\ UNCHANGED <<timerArmed, harnessExit>>
    /\ UNCHANGED <<ready, testCount, passCount, res, ran>>
    /\ UNCHANGED outsideHarness

\* run_tests.js:56, 70-72: fetch rejects (nothing listens, the connection is
\* reset).  The timer is not cleared; it fires during the delay, to no effect.
ProbeRejects ==
    /\ harness = "fetch"
    /\ FailedAttempt
    /\ UNCHANGED <<ready, timerArmed, testCount, passCount, res, harnessExit, ran>>
    /\ UNCHANGED outsideHarness

\* run_tests.js:55, 70-72: no response within 1900 ms; the timer fires, the
\* controller aborts the fetch, which rejects.
ProbeTimesOut ==
    /\ harness = "fetch"
    /\ timerArmed
    /\ timerArmed' = FALSE
    /\ FailedAttempt
    /\ UNCHANGED <<ready, testCount, passCount, res, harnessExit, ran>>
    /\ UNCHANGED outsideHarness

\* run_tests.js:56-59, 67-69: the response's status line and headers arrive;
\* the timer is cleared, then response.ok is tested.
ProbeAnswered(ok) ==
    /\ harness = "fetch"
    /\ timerArmed' = FALSE
    /\ IF ok
          THEN /\ harness' = "json"
               /\ UNCHANGED attempts
          ELSE FailedAttempt
    /\ UNCHANGED <<ready, testCount, passCount, res, harnessExit, ran>>
    /\ UNCHANGED outsideHarness

\* run_tests.js:60-66: the body was read and parsed; its redis_status is label.
BodyRead(label) ==
    /\ harness = "json"
    /\ IF label = "connected"
          THEN /\ ready' = TRUE
               /\ harness' = "loop"
               /\ UNCHANGED attempts
          ELSE /\ FailedAttempt
               /\ UNCHANGED ready
    /\ UNCHANGED <<timerArmed, testCount, passCount, res, harnessExit, ran>>
    /\ UNCHANGED outsideHarness

\* run_tests.js:60-61, 70-72: reading the body fails, the body is no JSON, or
\* it is null.
BodyFails ==
    /\ harness = "json"
    /\ FailedAttempt
    /\ UNCHANGED <<ready, timerArmed, testCount, passCount, res, harnessExit, ran>>
    /\ UNCHANGED outsideHarness

\* run_tests.js:75: the delay is over; a timer left armed has fired by now.
DelayEnds ==
    /\ harness = "delay"
    /\ harness' = "loop"
    /\ timerArmed' = FALSE
    /\ UNCHANGED <<ready, attempts, testCount, passCount, res, harnessExit, ran>>
    /\ UNCHANGED outsideHarness

\* run_tests.js:9-20: makeRequest counts the scenario and sends its request;
\* every scenario after the first asks a /test/ route.
MakeRequest ==
    /\ harness = "scenario"
    /\ testCount' = testCount + 1
    /\ harness' = "request"
    /\ ran' = [ran EXCEPT !.askedTestRoute = @ \/ testCount + 1 > 1]
    /\ UNCHANGED <<ready, attempts, timerArmed, passCount, res, harnessExit>>
    /\ UNCHANGED outsideHarness

\* run_tests.js:20-29: the response arrives and its body is parsed.
RequestAnswered(status, body) ==
    /\ harness = "request"
    /\ res' = Result(status, body)
    /\ harness' = "check"
    /\ UNCHANGED <<ready, attempts, timerArmed, testCount, passCount, harnessExit, ran>>
    /\ UNCHANGED outsideHarness

\* Faulty variant: the exception leaves makeRequest and runTests.
RequestErrorEscapes ==
    /\ harness' = "aborted"
    /\ harnessExit' = <<1>>
    /\ ran' = [ran EXCEPT !.threw = TRUE]
    /\ UNCHANGED res

\* run_tests.js:30-33.
CatchRequestError ==
    /\ res' = Synthetic
    /\ harness' = "check"
    /\ ran' = [ran EXCEPT !.threw = TRUE]
    /\ UNCHANGED harnessExit

\* run_tests.js:20, 24, 30-33: fetch rejects, or the body is no JSON:
\* response.json() rejects, and response.text() rejects too, the body having
\* been consumed.
RequestThrows ==
    /\ harness = "request"
    /\ CatchRequestError
    /\ UNCHANGED <<ready, attempts, timerArmed, testCount, passCount>>
    /\ UNCHANGED outsideHarness

\* Faulty variant: a failed check is counted as passed too.
checkCountsAll(condition) ==
    /\ passCount' = passCount + 1
    /\ ran' = IF condition THEN ran ELSE [ran EXCEPT !.failed = @ + 1]

\* run_tests.js:36-45.
check(condition) ==
    IF condition
       THEN /\ passCount' = passCount + 1
            /\ UNCHANGED ran
       ELSE /\ UNCHANGED passCount
            /\ ran' = [ran EXCEPT !.failed = @ + 1]

\* run_tests.js:91-159, 176-179: the scenario's check, then the next scenario
\* or the summary; a condition that throws ends the run in the catch of line 176.
Check ==
    /\ harness = "check"
    /\ IF ConditionThrows(testCount, res)
          THEN /\ harness' = "aborted"
               /\ harnessExit' = <<1>>
               /\ UNCHANGED <<passCount, ran>>
          ELSE /\ check(Condition(testCount, res))
               /\ harness' = IF testCount = LastScenario THEN "summary" ELSE "scenario"
               /\ UNCHANGED harnessExit
    /\ UNCHANGED <<ready, attempts, timerArmed, testCount, res>>
    /\ UNCHANGED outsideHarness

\* run_tests.js:161-173.
Summary ==
    /\ harness = "summary"
    /\ harnessExit' = IF testCount = passCount THEN <<0>> ELSE <<1>>
    /\ harness' = "finished"
    /\ UNCHANGED <<ready, attempts, timerArmed, testCount, passCount, res, ran>>
    /\ UNCHANGED outsideHarness

----------------------------------------------------------------------------
(* entrypoint.sh *)

outsideScript == <<serverVars, retry>>

\* entrypoint.sh:7-9: node server.js &
StartServer ==
    /\ script = "start"
    /\ script' = "server"
    /\ app' = "running"
    /\ UNCHANGED <<appExit, testExitCode, scriptExit>>
    /\ UNCHANGED <<harnessVars, outsideScript>>

\* entrypoint.sh:13-14: node run_tests.js is started in the foreground.
RunTests ==
    /\ script = "server"
    /\ script' = "tests"
    /\ harness' = "loop"
    /\ UNCHANGED <<app, appExit, testExitCode, scriptExit>>
    /\ UNCHANGED <<ready, attempts, timerArmed, testCount, passCount, res, harnessExit, ran>>
    /\ UNCHANGED outsideScript

\* server.js:173-176: the server process ends by itself, with process.exit(1).
ServerExits ==
    /\ app = "running"
    /\ app' = "exited"
    /\ appExit' = <<1>>
    /\ UNCHANGED <<script, testExitCode, scriptExit>>
    /\ UNCHANGED <<harnessVars, outsideScript>>

\* entrypoint.sh:4, 14-15: run_tests.js has exited.  Under set -e a non-zero
\* status of line 14 ends the script there, with that status; otherwise the
\* status is stored in TEST_EXIT_CODE.
TestsExit ==
    /\ script = "tests"
    /\ harnessExit # Running
    /\ IF harnessExit # <<0>>
          THEN /\ script' = "exited"
               /\ scriptExit' = harnessExit
               /\ UNCHANGED testExitCode
          ELSE /\ script' = "branch"
               /\ testExitCode' = harnessExit
               /\ UNCHANGED scriptExit
    /\ UNCHANGED <<app, appExit>>
    /\ UNCHANGED <<harnessVars, outsideScript>>

\* entrypoint.sh:17-31: the test of TEST_EXIT_CODE.  A kill of a process that
\* is gone fails, which under set -e ends the script with status 1.
Branch ==
    /\ script = "branch"
    /\ IF testExitCode = <<0>>
          THEN /\ script' = "wait"
               /\ UNCHANGED <<app, scriptExit>>
          ELSE /\ script' = "exited"   \* not reached: line 15 is reached with status 0 only
               /\ app' = IF app = "running" THEN "killed" ELSE app
               /\ scriptExit' = IF app = "running" THEN testExitCode ELSE <<1>>
    /\ UNCHANGED <<appExit, testExitCode>>
    /\ UNCHANGED <<harnessVars, outsideScript>>

\* entrypoint.sh:22-23: wait returns the server's status, and the script exits
\* with it.
WaitReturns ==
    /\ script = "wait"
    /\ app = "exited"
    /\ script' = "exited"
    /\ scriptExit' = appExit
    /\ UNCHANGED <<app, appExit, testExitCode>>
    /\ UNCHANGED <<harnessVars, outsideScript>>

----------------------------------------------------------------------------
(* The client's reconnection loop *)

\* The attempt numbers followed.
MaxTimes == 40

outsideRetry == <<serverVars, harnessVars, scriptVars>>

\* A connection attempt succeeds.
RetryConnects ==
    /\ retry.status = "connecting"
    /\ retry' = [retry EXCEPT !.status = "connect"]
    /\ UNCHANGED outsideRetry

\* The ready check passes; the client resets its attempt counter.
RetryReady ==
    /\ retry.status = "connect"
    /\ retry' = [status |-> "ready", times |-> 0, delay |-> 0]
    /\ UNCHANGED outsideRetry

\* server.js:23-27: the connection closes; the client counts the attempt and
\* asks retryStrategy for the delay: a number schedules a reconnection,
\* anything else ends the client.
RetryCloses ==
    LET times == retry.times + 1
        delay == retryStrategy(times)
    IN
    /\ retry.status \in {"connecting", "connect", "ready"}
    /\ retry.times < MaxTimes
    /\ retry' = IF delay >= 0
                   THEN [status |-> "reconnecting", times |-> times, delay |-> delay]
                   ELSE [status |-> "end", times |-> times, delay |-> delay]
    /\ UNCHANGED outsideRetry

\* The delay has passed and the client connects again.
RetryTimerFires ==
    /\ retry.status = "reconnecting"
    /\ retry' = [retry EXCEPT !.status = "connecting"]
    /\ UNCHANGED outsideRetry

----------------------------------------------------------------------------
(* Specifications *)

Next ==
    \/ WarmupTimerFires
    \/ NewRedis
    \/ NewRedisThrows
    \/ ConnectToRedisReturns
    \/ ListenBinds
    \/ ListenFails
    \/ OnConnect
    \/ OnReady
    \/ ConnectionLost
    \/ Reconnecting
    \/ StoreChanges
    \/ HandleStatus
    \/ \E body \in Bodies, breaks \in BOOLEAN : HandleSet(body, breaks)
    \/ \E key \in Keys, breaks \in BOOLEAN : HandleGet(key, breaks)
    \/ \E body \in Bodies, breaks \in BOOLEAN : HandleLpush(body, breaks)
    \/ \E key \in Keys, start \in IndexParams, stop \in IndexParams, breaks \in BOOLEAN :
          HandleLrange(key, start, stop, breaks)
    \/ \E key \in Keys, breaks \in BOOLEAN : HandleDel(key, breaks)

Spec == Init /\ [][Next]_vars

\* What the scheduling of the process guarantees: a timer that was set fires,
\* a continuation whose promise has settled runs, a connection attempt ends
\* (it succeeds, fails or times out after connectTimeout), the ready check of
\* an established socket ends, and a scheduled reconnection is made.  Nothing
\* is assumed of the store or of the clients sending requests.
FairSpec ==
    /\ Spec
    /\ WF_vars(WarmupTimerFires)
    /\ WF_vars(NewRedis \/ NewRedisThrows)
    /\ WF_vars(ConnectToRedisReturns)
    /\ WF_vars(ListenBinds \/ ListenFails)
    /\ WF_vars(redis = "connecting" /\ (OnConnect \/ ConnectionLost))
    /\ WF_vars(redis = "connect" /\ (OnReady \/ ConnectionLost))
    /\ WF_vars(Reconnecting)

RunNext ==
    \/ StartServer
    \/ RunTests
    \/ ServerExits
    \/ TestsExit
    \/ Branch
    \/ WaitReturns
    \/ LoopTest
    \/ ProbeRejects
    \/ ProbeTimesOut
    \/ \E ok \in BOOLEAN : ProbeAnswered(ok)
    \/ \E label \in {"connected", "connecting"} : BodyRead(label)
    \/ BodyFails
    \/ DelayEnds
    \/ MakeRequest
    \/ \E status \in Statuses, body \in JsonBodies : RequestAnswered(status, body)
    \/ RequestThrows
    \/ Check
    \/ Summary

\* entrypoint.sh with run_tests.js, against whatever answers on port 3000.
RunSpec == Init /\ [][RunNext]_vars

\* What the scheduling of the test process guarantees: its own steps are
\* taken, and a timer that was set fires.  Nothing is assumed of the responses.
FairRunSpec ==
    /\ RunSpec
    /\ WF_vars(StartServer)
    /\ WF_vars(RunTests)
    /\ WF_vars(LoopTest)
    /\ WF_vars(DelayEnds)
    /\ WF_vars(ProbeTimesOut)
    /\ WF_vars(Check)
    /\ WF_vars(Summary)

RetryNext ==
    \/ RetryConnects
    \/ RetryReady
    \/ RetryCloses
    \/ RetryTimerFires

\* The reconnection loop alone.
RetrySpec == Init /\ [][RetryNext]_vars

----------------------------------------------------------------------------
(* Properties *)

DataRoutes == {"set", "get", "lpush", "lrange", "del"}

Has(step) == \E i \in 1..Len(steps) : steps[i] = step

Before(a, b) == \E i, j \in 1..Len(steps) : i < j /\ steps[i] = a /\ steps[j] = b

HasField(body, f) == f \in DOMAIN body

\* A body object without a key (or with an empty one) or without a value.
Lacking(body) == body.key \in {Undefined, ""} \/ body.value = Undefined

\* C1: a data-access request handled while the client is absent or not ready
\* is answered 503 and issues no store command.
C1_GateShortCircuits ==
    (resp.route \in DataRoutes /\ resp.gate # "ready")
        => (resp.status = 503 /\ resp.cmds = <<>>)

\* A well-formed Set arrived while the client was reconnecting and was refused.
C1_Witness ==
    /\ resp.route = "set"
    /\ resp.gate = "reconnecting"
    /\ ~Lacking(resp.req)
    /\ resp.status = 503
    /\ resp.cmds = <<>>

\* C2: after process start the listener is eventually bound (or binding the
\* port itself fails), whether or not the store connection succeeds.
C2_ListenerEventuallyBound == <>(pc = "listening" \/ Has("listenFailed"))

\* The client has failed for good: its constructor threw, or it emitted end.
TerminallyFailed == Has("newRedisThrew") \/ redis = "end"

\* The wait of start() on connectToRedis() is over.
WaitEnded == pc \in {"listen", "listening", "exited"}

\* C3 as stated: the wait ends only at the first ready or at a terminal failure.
C3_WaitEndsAtReady == WaitEnded => (seen.ready \/ TerminallyFailed)

\* C3: the wait on the initial connection ends only once the client has emitted
\* connect (the socket is established; ready may not have been reached) or has
\* terminally failed.
C3_WaitEndsAtConnect == WaitEnded => (seen.connect \/ TerminallyFailed)

\* The listener is bound while the client has connected but was never ready.
C3_Witness == pc = "listening" /\ seen.connect /\ ~seen.ready /\ redis = "connect"

\* C4: the warm-up timer fires before any client is created, and listen is
\* called only after connectToRedis has returned, its promise settled.
C4_StartupOrder ==
    /\ (redis # NoClient \/ promise # "none" \/ retryAttempts > 0) => Before("timer", "newRedis")
    /\ Has("newRedisThrew") => Before("timer", "newRedisThrew")
    /\ WaitEnded => (promise # "pending" /\ Has("returned"))
    /\ Has("returned") => (Before("newRedis", "returned") \/ Before("newRedisThrew", "returned"))
    /\ Has("listening") => Before("returned", "listening")
    /\ Has("listenFailed") => Before("returned", "listenFailed")

\* The whole startup sequence has run, in order.
C4_Witness == pc = "listening" /\ steps = <<"timer", "newRedis", "returned", "listening">>

\* The process has exited exactly when binding the listener failed, with status 1.
ExitOnlyOnBindFailure ==
    /\ (pc = "exited" \/ exitCode # Running) => (exitCode = <<1>> /\ Has("listenFailed"))
    /\ Has("listenFailed") => (pc = "exited" /\ exitCode = <<1>>)
    /\ Has("newRedisThrew") => WaitEnded

ValidRequest(r) == r.route \in {"set", "lpush"} => (r.req.present /\ ~Lacking(r.req))

\* C6: a valid data-access request handled while the client is ready is run
\* against the store and not answered 503, whatever happened before.
C6_GateFollowsCurrentState ==
    (resp.route \in DataRoutes /\ resp.gate = "ready")
        => (resp.status # 503 /\ (ValidRequest(resp) => Len(resp.cmds) = 1))

\* A request was refused with 503 earlier, and a later Set went to the store.
C6_Witness ==
    /\ seen.served503
    /\ resp.route = "set"
    /\ resp.gate = "ready"
    /\ resp.status = 200
    /\ resp.cmds = <<"SET">>

\* C7: GET / is answered in every connection state once the listener is bound,
\* with 200, hello world and a redis_status that is connected exactly when
\* the client is ready, disconnected without a client, else the raw status.
C7_StatusRoute ==
    /\ pc = "listening" => ENABLED HandleStatus
    /\ resp.route = "/" =>
          /\ resp.status = 200
          /\ resp.body.hello = "world"
          /\ (resp.body.redis_status = "connected") <=> (resp.gate = "ready")
          /\ resp.gate = NoClient => resp.body.redis_status = "disconnected"
          /\ resp.gate \notin {NoClient, "ready"} => resp.body.redis_status = resp.gate

\* GET / answered while the socket was up and the client not ready yet.
C7_Witness == resp.route = "/" /\ resp.gate = "connect" /\ resp.body.redis_status = "connect"

\* A Set or List-push whose body is an object that lacks an input.
LacksInput(r) == r.route \in {"set", "lpush"} /\ r.req.present /\ Lacking(r.req)

\* C8 as stated: validation comes before the gate, so such a request is
\* answered 400 in every connection state.
C8_ValidationBeforeGate == LacksInput(resp) => (resp.status = 400 /\ resp.cmds = <<>>)

\* C8: the gate comes before validation: such a request issues no store
\* command and is answered 400 when the client is ready, 503 when it is not.
C8_GateBeforeValidation ==
    LacksInput(resp) =>
        /\ resp.cmds = <<>>
        /\ resp.status = (IF resp.gate = "ready" THEN 400 ELSE 503)

\* A List-push without a value is answered 400 while the client is ready.
C8_Witness ==
    /\ resp.route = "lpush"
    /\ resp.req.present
    /\ resp.req.key \in Keys
    /\ resp.req.value = Undefined
    /\ resp.gate = "ready"
    /\ resp.status = 400

\* C9: a store command that failed is answered 500 with an error field and a
\* details field that carries the store's message, never 200.
C9_StoreErrorsBecome500 ==
    (resp.route \in DataRoutes /\ resp.cmdError # NoError) =>
        /\ resp.status = 500
        /\ HasField(resp.body, "error")
        /\ HasField(resp.body, "details")
        /\ resp.body.details = resp.cmdError
        /\ ~HasField(resp.body, "success")

\* A Get on a key that holds a list failed in the store and was answered 500.
C9_Witness ==
    /\ resp.route = "get"
    /\ resp.cmdError = WRONGTYPE
    /\ resp.status = 500
    /\ resp.body.details = WRONGTYPE

\* The envelope of a response: success true on 200, an error field on an error status.
Envelope(r) ==
    /\ r.status = 200 => (HasField(r.body, "success") /\ r.body.success = TRUE)
    /\ r.status \in {400, 404, 500, 503} => HasField(r.body, "error")

\* C10 as stated: every route's responses follow the envelope.
C10_EnvelopeOnEveryRoute == resp.route # "none" => Envelope(resp)

\* C10: the responses of the /test/* routes follow the envelope; GET / answers
\* 200 with hello and redis_status only, without a success field.
C10_EnvelopeOnDataRoutes ==
    /\ resp.route \in DataRoutes => (Envelope(resp) /\ resp.status \in {200, 400, 404, 500, 503})
    /\ resp.route = "/" => (resp.status = 200 /\ DOMAIN resp.body = {"hello", "redis_status"})

\* A refused request: 503 with an error field.
C10_Witness == resp.route = "del" /\ resp.status = 503 /\ HasField(resp.body, "error")

\* A data-access response whose store command reached the ready store.
Served(route) ==
    /\ resp.route = route
    /\ resp.gate = "ready"
    /\ resp.cmds # <<>>
    /\ resp.cmdError # ConnectionClosed

NotFound(r) == r.status = 404 /\ HasField(r.body, "error") /\ r.body.error # <<>>

\* C11 as stated: Get answers 200 with the value of the last Set not followed
\* by a Delete, and 404 for a key never written or deleted since its last Set.
C11_GetFollowsSetAndDelete ==
    Served("get") =>
        LET last == seen.lastSet[resp.req.key] IN
        IF last \in Values
           THEN resp.status = 200 /\ resp.body.success = TRUE /\ resp.body.value = last
           ELSE (last = Deleted \/ seen.pushed[resp.req.key] = <<>>) => NotFound(resp)

\* C11: Get answers 200 with the value of the last Set not followed by a
\* Delete; for a key without such a Set it answers 404 when the key holds
\* nothing, and 500 when a List-push has made it a list since.
C11_GetFollowsSetDeleteAndKind ==
    Served("get") =>
        LET last == seen.lastSet[resp.req.key] IN
        IF last \in Values
           THEN resp.status = 200 /\ resp.body.success = TRUE /\ resp.body.value = last
           ELSE IF seen.pushed[resp.req.key] = <<>>
           THEN NotFound(resp)
           ELSE resp.status = 500 /\ resp.cmdError = WRONGTYPE

\* Get on a key that was set and then deleted is answered 404.
C11_Witness ==
    /\ Served("get")
    /\ seen.lastSet[resp.req.key] = Deleted
    /\ seen.pushed[resp.req.key] = <<>>
    /\ resp.status = 404

\* The key exists, by the requests answered 200 so far: as a string or as a list.
Exists(k) == seen.lastSet[k] \in Values \/ seen.pushed[k] # <<>>

\* The message names a count of 1.
SaysCountOne(message) ==
    \E i \in 1..(Len(message) - 1) : message[i] = "', count: " /\ message[i + 1] = "1"

\* C12: a Delete that reaches the ready store answers 200 with "count: 1"
\* exactly when the key existed (as a string or as a list) and 404 with an
\* error exactly when it did not; after a 200 the key is absent, so that a
\* Get and a further Delete on it answer 404.
C12_DeleteExistingOnly ==
    /\ [][(resp' # resp /\ resp'.route = "del" /\ resp'.gate = "ready"
            /\ resp'.cmdError # ConnectionClosed)
          => IF Exists(resp'.req.key)
                THEN /\ resp'.status = 200
                     /\ resp'.body.success = TRUE
                     /\ SaysCountOne(resp'.body.message)
                     /\ seen'.lastSet[resp'.req.key] \notin Values
                     /\ seen'.pushed[resp'.req.key] = <<>>
                     /\ store'[resp'.req.key].kind = "none"
                ELSE NotFound(resp')]_vars
    /\ []((Served("get") /\ ~Exists(resp.req.key)) => NotFound(resp))
    /\ []((Served("del") /\ resp.status = 200) => ~Exists(resp.req.key))

\* A key that only ever held a list has been deleted with 200.
C12_Witness ==
    /\ Served("del")
    /\ resp.status = 200
    /\ SaysCountOne(resp.body.message)
    /\ seen.lastSet[resp.req.key] = NeverSet

RECURSIVE Reverse(_)
Reverse(l) == IF l = <<>> THEN <<>> ELSE Append(Reverse(Tail(l)), Head(l))

\* C13: after successful List-push requests v1, ..., vn to a key that was absent
\* before them, List-range(key, 0, -1) that reaches the ready store answers 200
\* with values <<vn, ..., v1>>.
C13_PushIsPrepend ==
    (/\ Served("lrange")
     /\ resp.req.start = "0"
     /\ resp.req.stop = "-1"
     /\ seen.pushed[resp.req.key] # <<>>)
    => /\ resp.status = 200
       /\ resp.body.success = TRUE
       /\ resp.body.values = Reverse(seen.pushed[resp.req.key])

\* Two different values were pushed and the whole list was read back.
C13_Witness ==
    /\ Served("lrange")
    /\ resp.req.start = "0"
    /\ resp.req.stop = "-1"
    /\ Len(seen.pushed[resp.req.key]) = 2
    /\ seen.pushed[resp.req.key][1] # seen.pushed[resp.req.key][2]
    /\ resp.status = 200

\* The path parameter is the text of an integer.
IsIndex(text) == ~parseInt(text).nan

\* C14: List-range that reaches the ready store on a key that holds nothing
\* (never created, or deleted) answers 200 with success true and no values,
\* for every integer start and stop.
C14_RangeOfAbsentKeyIsEmpty ==
    (/\ Served("lrange")
     /\ ~Exists(resp.req.key)
     /\ IsIndex(resp.req.start)
     /\ IsIndex(resp.req.stop))
    => /\ resp.status = 200
       /\ resp.body.success = TRUE
       /\ resp.body.values = <<>>

\* A key that was set and then deleted is read as a list from its tail.
C14_Witness ==
    /\ Served("lrange")
    /\ seen.lastSet[resp.req.key] = Deleted
    /\ seen.pushed[resp.req.key] = <<>>
    /\ resp.req.start = "-1"
    /\ IsIndex(resp.req.stop)
    /\ resp.status = 200
    /\ resp.body.values = <<>>

Started == {"scenario", "request", "check", "summary", "finished", "aborted"}

\* C15: when no probe has seen ready within the maxAttempts attempts, the
\* harness exits with status 1 with testCount 0 and no /test/ route asked;
\* the scenarios are reached only after a probe has seen ready, and no probe is
\* made beyond the budget.
C15_NotReadyRunsNothing ==
    /\ [](~ready => (testCount = 0 /\ ~ran.askedTestRoute /\ harness \notin Started))
    /\ [](attempts <= maxAttempts)
    /\ []((~ready /\ attempts = maxAttempts) => harness \in {"delay", "loop", "gaveUp"})
    /\ [](harness = "gaveUp" =>
            (harnessExit = <<1>> /\ ~ready /\ attempts = maxAttempts /\ testCount = 0))
    /\ ((~ready /\ attempts = maxAttempts) ~> (harnessExit = <<1>>))

C15_Witness ==
    /\ harness = "gaveUp"
    /\ attempts = maxAttempts
    /\ testCount = 0
    /\ harnessExit = <<1>>

\* C16: passCount never exceeds testCount; at the summary they are equal
\* exactly when no check failed; the exit status is 0 only after the summary
\* of a run whose twelve checks all passed, and 1 on every other exit.
C16_ExitZeroIffAllPassed ==
    /\ passCount <= testCount
    /\ harness = "summary" => (passCount = testCount <=> ran.failed = 0)
    /\ harness = "finished" => (harnessExit = <<0>> <=> ran.failed = 0)
    /\ harnessExit = <<0>> =>
          (harness = "finished" /\ testCount = LastScenario /\ passCount = LastScenario)
    /\ harnessExit # Running => harnessExit \in {<<0>>, <<1>>}
    /\ harness \in {"gaveUp", "aborted"} => harnessExit = <<1>>

C16_Witness ==
    /\ harness = "finished"
    /\ harnessExit = <<0>>
    /\ passCount = LastScenario
    /\ ran.failed = 0

\* C17: a request that throws is caught and becomes a result with status 500;
\* the check of that scenario fails, the run goes on with the next scenario or
\* the summary, and it exits with status 1; the run is aborted only by a
\* condition that throws on a null body.
C17_RequestErrorFailsScenarioOnly ==
    /\ [][(harness = "request" /\ harness' # harness)
          => /\ harness' = "check"
             /\ harnessExit' = Running
             /\ res'.synthetic => (res'.status = 500 /\ ran'.threw)]_vars
    /\ [][(harness = "check" /\ harness' # harness /\ res.synthetic)
          => /\ passCount' = passCount
             /\ ran'.failed = ran.failed + 1
             /\ harnessExit' = Running
             /\ harness' = IF testCount = LastScenario THEN "summary" ELSE "scenario"]_vars
    /\ []((ran.threw /\ harnessExit # Running) => harnessExit = <<1>>)
    /\ [](harness = "aborted" => (~res.synthetic /\ IsNull(res.body)))

\* A request threw, and the run went through all scenarios to the summary.
C17_Witness ==
    /\ ran.threw
    /\ harness = "finished"
    /\ testCount = LastScenario
    /\ harnessExit = <<1>>

\* C18: a probe that is waiting, for the response or for its body, has its
\* abort timer armed.
C18_WaitingProbeHasTimer == harness \in {"fetch", "json"} => timerArmed

\* The delay min(times * 150, 2000), written out.
ExpectedDelay(times) == IF times <= 13 THEN times * 150 ELSE 2000

\* C19: the client never ends through its retry policy; the delay after
\* attempt times >= 1 is min(times * 150, 2000), in (0, 2000], and does not
\* decrease from one attempt to the next.
C19_RetryNeverGivesUp ==
    /\ [](retry.status # "end")
    /\ [](retry.times >= 1 =>
            (retry.delay = ExpectedDelay(retry.times) /\ 0 < retry.delay /\ retry.delay <= 2000))
    /\ [][retry'.times = retry.times + 1 => retry'.delay >= retry.delay]_vars

\* The delay has reached its cap.
C19_Witness ==
    /\ retry.status = "reconnecting"
    /\ retry.times > 14
    /\ retry.delay = 2000

\* C20: once the script has exited after tests that exited non-zero, the
\* server is no longer running and the script's status is the tests' status.
C20_FailedTestsStopServer ==
    (script = "exited" /\ harnessExit \notin {Running, <<0>>})
    => (app # "running" /\ scriptExit = harnessExit)

====
